---- MODULE Spec2Model ----
(***************************************************************************)
(* A model of src/src/dynamics.rs: the Integrator, the Differentiator, the *)
(* rigid-body DDMRModel and the motor-driven ActuatedDDMRModel.            *)
(*                                                                         *)
(* Every quantity of the program is an f64 (SI<f64, U>; the units are      *)
(* checked by the compiler and leave no trace at run time).  An f64 is     *)
(* modelled as a binary floating-point number with round-to-nearest-even,  *)
(* +inf, -inf and NaN; the mantissa has MantBits bits instead of 53, and   *)
(* the exponent is unbounded (no overflow to inf, no subnormals), zero is  *)
(* unsigned.  A value is <<k, m, e>>:                                      *)
(*    k = 0   the finite number m * 2^e  (m = 0 and e = 0, or m odd),      *)
(*    k = 1   +inf,    k = -1   -inf,    k = 2   NaN.                       *)
(***************************************************************************)
EXTENDS Integers, Sequences, FiniteSets, TLC

\* Mantissa width of the modelled floating-point format (f64 has 53).
MantBits == 4

----------------------------------------------------------------------------
(* Integer helpers of the floating-point layer. *)

Abs(n) == IF n < 0 THEN -n ELSE n

Sgn(n) == IF n < 0 THEN -1 ELSE IF n = 0 THEN 0 ELSE 1

RECURSIVE Pow2(_)
Pow2(n) == IF n <= 0 THEN 1 ELSE 2 * Pow2(n - 1)

\* Number of bits of n > 0 (0 for n = 0).
RECURSIVE BitLen(_)
BitLen(n) == IF n <= 0 THEN 0 ELSE 1 + BitLen(n \div 2)

\* The element of a one-element set.  The({e(a, b) : a \in {x}, b \in {y}})
\* is e(x, y) with x and y evaluated once, before e: the program's strict
\* evaluation of arguments and let bindings.
The(S) == CHOOSE x \in S : TRUE

----------------------------------------------------------------------------
(* Exact dyadic numbers <<0, m, e>> = m * 2^e, of any mantissa width. *)

NaN == <<2, 0, 0>>

PosInf == <<1, 0, 0>>

NegInf == <<-1, 0, 0>>

Zero == <<0, 0, 0>>

RECURSIVE Canon(_, _)
Canon(m, e) ==
    IF m = 0 THEN Zero
    ELSE IF m % 2 = 0 THEN Canon(m \div 2, e + 1)
    ELSE <<0, m, e>>

IsFinite(x) == x[1] = 0

IsNaN(x) == x[1] = 2

\* The exact sum, difference, product of two finite numbers (no rounding).
ExAdd(x, y) ==
    IF x[2] = 0 THEN y
    ELSE IF y[2] = 0 THEN x
    ELSE IF x[3] >= y[3]
         THEN Canon(x[2] * Pow2(x[3] - y[3]) + y[2], y[3])
         ELSE Canon(x[2] + y[2] * Pow2(y[3] - x[3]), x[3])

ExNeg(x) == <<x[1], -x[2], x[3]>>

ExSub(x, y) == ExAdd(x, ExNeg(y))

ExMul(x, y) == Canon(x[2] * y[2], x[3] + y[3])

ExAbs(x) == <<x[1], Abs(x[2]), x[3]>>

\* x <= y for finite numbers.
ExLeq(x, y) == ExSub(y, x)[2] >= 0

\* Whether the finite number x fits the floating-point format.
Representable(x) == x[1] = 0 /\ BitLen(Abs(x[2])) <= MantBits

----------------------------------------------------------------------------
(* Rounding to the format: round to nearest, ties to even. *)

\* The float nearest to s * (a / b) * 2^e, for s in {-1, 1}, a > 0, b > 0.
RoundRat(s, a, b, e) ==
    LET k    == MantBits + 2 - (BitLen(a) - BitLen(b))
        num  == IF k >= 0 THEN a * Pow2(k) ELSE a
        den  == IF k >= 0 THEN b ELSE b * Pow2(-k)
    IN  The({LET drop == BitLen(q) - MantBits
                 mant == q \div Pow2(drop)
                 low  == q % Pow2(drop)
                 half == Pow2(drop - 1)
                 up   == \/ low > half
                         \/ low = half /\ (num % den # 0 \/ mant % 2 = 1)
             IN  Canon(s * (IF up THEN mant + 1 ELSE mant), e - k + drop)
             : q \in {num \div den}})

\* The float nearest to the finite dyadic number x.
Round(x) ==
    IF x[2] = 0 THEN Zero ELSE RoundRat(Sgn(x[2]), Abs(x[2]), 1, x[3])

\* The position of the leading bit of a nonzero finite number.
Top(x) == x[3] + BitLen(Abs(x[2]))

----------------------------------------------------------------------------
(* The f64 operations the program uses. *)

FNegOf(x) == IF x[1] = 0 THEN <<0, -x[2], x[3]>>
             ELSE IF x[1] = 2 THEN NaN ELSE <<-x[1], 0, 0>>

FNeg(x) == The({FNegOf(a) : a \in {x}})

FAddOf(x, y) ==
    IF x[1] = 2 \/ y[1] = 2 THEN NaN
    ELSE IF x[1] # 0 /\ y[1] # 0 THEN (IF x[1] = y[1] THEN x ELSE NaN)
    ELSE IF x[1] # 0 THEN x
    ELSE IF y[1] # 0 THEN y
    ELSE IF x[2] = 0 THEN y
    ELSE IF y[2] = 0 THEN x
    \* an operand below a quarter of the other's last place is absorbed
    ELSE IF Top(x) - Top(y) >= MantBits + 2 THEN x
    ELSE IF Top(y) - Top(x) >= MantBits + 2 THEN y
    ELSE Round(ExAdd(x, y))

FAdd(x, y) == The({FAddOf(a, b) : a \in {x}, b \in {y}})

FSub(x, y) == FAdd(x, FNeg(y))

FMulOf(x, y) ==
    IF x[1] = 2 \/ y[1] = 2 THEN NaN
    ELSE IF x[1] # 0 /\ y[1] # 0 THEN <<x[1] * y[1], 0, 0>>
    ELSE IF x[1] # 0 THEN (IF y[2] = 0 THEN NaN ELSE <<x[1] * Sgn(y[2]), 0, 0>>)
    ELSE IF y[1] # 0 THEN (IF x[2] = 0 THEN NaN ELSE <<y[1] * Sgn(x[2]), 0, 0>>)
    ELSE Round(ExMul(x, y))

FMul(x, y) == The({FMulOf(a, b) : a \in {x}, b \in {y}})

FDivOf(x, y) ==
    IF x[1] = 2 \/ y[1] = 2 THEN NaN
    ELSE IF x[1] # 0 /\ y[1] # 0 THEN NaN
    ELSE IF x[1] # 0 THEN <<x[1] * (IF y[2] < 0 THEN -1 ELSE 1), 0, 0>>
    ELSE IF y[1] # 0 THEN Zero
    ELSE IF y[2] = 0 THEN (IF x[2] = 0 THEN NaN ELSE <<Sgn(x[2]), 0, 0>>)
    ELSE IF x[2] = 0 THEN Zero
    ELSE RoundRat(Sgn(x[2]) * Sgn(y[2]), Abs(x[2]), Abs(y[2]), x[3] - y[3])

\* A faulty division that yields zero, not inf or NaN, for a zero divisor.
FDiv_ZeroGuard(x, y) ==
    The({IF a[1] = 0 /\ b[1] = 0 /\ b[2] = 0 THEN Zero ELSE FDivOf(a, b)
         : a \in {x}, b \in {y}})

FDiv(x, y) == The({FDivOf(a, b) : a \in {x}, b \in {y}})

\* The program's == on f64: NaN equals nothing.
FEq(x, y) == x[1] # 2 /\ y[1] # 2 /\ x = y

\* The float of the integer n and of n / 2^k.
F(n) == Round(Canon(n, 0))

Frac(n, k) == Round(Canon(n, -k))

----------------------------------------------------------------------------
(* Integrator<U>: { dt, acc }.  A method is modelled by the pair            *)
(* [self |-> the object after the call, ret |-> the value returned].        *)

Integrator_new(dt, initial) == [dt |-> dt, acc |-> initial]

Integrator_get(self) == [self |-> self, ret |-> self.acc]

\* A faulty add that forgets the timestep: self.acc += val.
Integrator_add_NoDt(self, val) ==
    The({Integrator_get(s1) : s1 \in {[self EXCEPT !.acc = FAdd(self.acc, val)]}})

\* self.acc += val.mul(self.dt); self.get()
Integrator_add(self, val) ==
    The({Integrator_get(s1)
         : s1 \in {[self EXCEPT !.acc = FAdd(self.acc, FMul(val, self.dt))]}})

----------------------------------------------------------------------------
(* Differentiator<U>: { dt, last, two }. *)

Differentiator_new(dt, initial) == [dt |-> dt, last |-> initial, two |-> initial]

Differentiator_get(self) ==
    [self |-> self, ret |-> FDiv(FSub(self.last, self.two), self.dt)]

\* A faulty add that does not shift the history: self.last = val only.
Differentiator_add_NoShift(self, val) ==
    The({Differentiator_get(s2) : s2 \in {[self EXCEPT !.last = val]}})

\* self.two = self.last; self.last = val; self.get()
Differentiator_add(self, val) ==
    The({Differentiator_get(s2)
         : s2 \in {[[self EXCEPT !.two = self.last] EXCEPT !.last = val]}})

----------------------------------------------------------------------------
(* DDMRModel: { p: DDMRParams, linv, angv }, equation 47 of the paper. *)

Two == F(2)

Vels_default == [lin |-> Zero, ang |-> Zero]

DDMRModel_new(dt, param) ==
    [p    |-> param,
     linv |-> Integrator_new(dt, Zero),
     angv |-> Integrator_new(dt, Zero)]

DDMRModel_vel(self) ==
    [self |-> self,
     ret  |-> [lin |-> Integrator_get(self.linv).ret,
               ang |-> Integrator_get(self.angv).ret]]

\* A faulty vdot whose coupling term forgets the offset d: mc * angv * angv.
DDMRModel_vdot_NoOffset(p, tau, angv) ==
    FDiv(FAdd(FDiv(FAdd(tau.r, tau.l), p.R),
              FMul(FMul(p.mc, angv), angv)),
         FAdd(p.m, FDiv(FDiv(FMul(Two, p.Iw), p.R), p.R)))

\* let vdot = ((tau.r + tau.l) / p.R + p.mc * p.d * angv * angv)
\*            / (p.m + 2. * p.Iw / p.R / p.R), with angv = self.angv.get()
DDMRModel_vdot(p, tau, angv) ==
    FDiv(FAdd(FDiv(FAdd(tau.r, tau.l), p.R),
              FMul(FMul(FMul(p.mc, p.d), angv), angv)),
         FAdd(p.m, FDiv(FDiv(FMul(Two, p.Iw), p.R), p.R)))

\* A faulty wdot whose torque term is the sum, not the difference.
DDMRModel_wdot_Sum(p, tau, angv, linv) ==
    FDiv(FSub(FDiv(FMul(FAdd(tau.r, tau.l), p.L), p.R),
              FMul(FMul(FMul(p.mc, p.d), angv), linv)),
         FAdd(p.I, FDiv(FDiv(FMul(FMul(FMul(Two, p.L), p.L), p.Iw), p.R), p.R)))

\* let wdot = ((tau.r - tau.l) * p.L / p.R - p.mc * p.d * angv * linv)
\*            / (p.I + 2. * p.L * p.L * p.Iw / p.R / p.R)
DDMRModel_wdot(p, tau, angv, linv) ==
    FDiv(FSub(FDiv(FMul(FSub(tau.r, tau.l), p.L), p.R),
              FMul(FMul(FMul(p.mc, p.d), angv), linv)),
         FAdd(p.I, FDiv(FDiv(FMul(FMul(FMul(Two, p.L), p.L), p.Iw), p.R), p.R)))

\* A faulty observe that integrates the linear velocity first and computes
\* wdot from the updated value.
DDMRModel_observe_Sequential(self, tau) ==
    The({The({[self |-> [self EXCEPT !.linv = lin.self, !.angv = ang.self],
               ret  |-> [lin |-> lin.ret, ang |-> ang.ret]]
              : ang \in {Integrator_add(self.angv,
                            DDMRModel_wdot(self.p, tau,
                                           Integrator_get(self.angv).ret,
                                           Integrator_get(lin.self).ret))}})
         : lin \in {Integrator_add(self.linv,
                       DDMRModel_vdot(self.p, tau, Integrator_get(self.angv).ret))}})

\* A faulty observe that returns the velocities read before the integrators
\* are advanced.
DDMRModel_observe_StaleReturn(self, tau) ==
    The({The({[self |-> [self EXCEPT !.linv = lin.self, !.angv = ang.self],
               ret  |-> [lin |-> Integrator_get(self.linv).ret,
                         ang |-> Integrator_get(self.angv).ret]]
              : lin \in {Integrator_add(self.linv, vdot)},
                ang \in {Integrator_add(self.angv, wdot)}})
         : vdot \in {DDMRModel_vdot(self.p, tau, Integrator_get(self.angv).ret)},
           wdot \in {DDMRModel_wdot(self.p, tau, Integrator_get(self.angv).ret,
                                    Integrator_get(self.linv).ret)}})

\* let vdot = ...; let wdot = ...; then self.linv.add(vdot) and
\* self.angv.add(wdot): both rates are computed before either integrator is
\* advanced.
DDMRModel_observe(self, tau) ==
    The({The({[self |-> [self EXCEPT !.linv = lin.self, !.angv = ang.self],
               ret  |-> [lin |-> lin.ret, ang |-> ang.ret]]
              : lin \in {Integrator_add(self.linv, vdot)},
                ang \in {Integrator_add(self.angv, wdot)}})
         : vdot \in {DDMRModel_vdot(self.p, tau, Integrator_get(self.angv).ret)},
           wdot \in {DDMRModel_wdot(self.p, tau, Integrator_get(self.angv).ret,
                                    Integrator_get(self.linv).ret)}})

\* A faulty vels_to_wheel with the two sides exchanged.
DDMRModel_vels_to_wheel_Swapped(self, v) ==
    [self |-> self,
     ret  |-> [l |-> FDiv(FAdd(v.lin, FMul(self.p.L, v.ang)), self.p.R),
               r |-> FDiv(FSub(v.lin, FMul(self.p.L, v.ang)), self.p.R)]]

DDMRModel_vels_to_wheel(self, v) ==
    [self |-> self,
     ret  |-> [l |-> FDiv(FSub(v.lin, FMul(self.p.L, v.ang)), self.p.R),
               r |-> FDiv(FAdd(v.lin, FMul(self.p.L, v.ang)), self.p.R)]]

\* A faulty wheels that steps the model with no torque to read its velocity.
DDMRModel_wheels_Observing(self) ==
    The({DDMRModel_vels_to_wheel(c1.self, c1.ret)
         : c1 \in {DDMRModel_observe(self, [l |-> Zero, r |-> Zero])}})

\* self.vels_to_wheel(self.vel())
DDMRModel_wheels(self) ==
    The({DDMRModel_vels_to_wheel(c1.self, c1.ret) : c1 \in {DDMRModel_vel(self)}})

----------------------------------------------------------------------------
(* ActuatedDDMRModel: { ddmr, p: DCMotorParams, di: LR<Differentiator> }. *)

ActuatedDDMRModel_new(dt, ddmr_par, params) ==
    [ddmr |-> DDMRModel_new(dt, ddmr_par),
     p    |-> params,
     di   |-> [l |-> Differentiator_new(dt, Zero),
               r |-> Differentiator_new(dt, Zero)]]

\* A faulty current whose back-EMF term forgets the wheel rate: Kb * N.
ActuatedDDMRModel_current_NoRate(p, v, phidot, didt) ==
    FDiv(FSub(FSub(v, FMul(p.Kb, p.N)), FMul(p.La, didt)), p.Ra)

\* (v - p.Kb * p.N * phidot - p.La * didt) / p.Ra, didt = self.di.<side>.get()
ActuatedDDMRModel_current(p, v, phidot, didt) ==
    FDiv(FSub(FSub(v, FMul(FMul(p.Kb, p.N), phidot)), FMul(p.La, didt)), p.Ra)

\* A faulty advance that drives both wheels with the left motor's torque.
ActuatedDDMRModel_advance_LeftTorque(self, ial, iar) ==
    The({[self |-> [self EXCEPT !.di.l = dl.self, !.di.r = dr.self,
                                !.ddmr = c2.self],
          ret  |-> c2.ret]
         : dl \in {Differentiator_add(self.di.l, ial)},
           dr \in {Differentiator_add(self.di.r, iar)},
           c2 \in {The({DDMRModel_observe(self.ddmr, tau)
                        : tau \in {[l |-> FMul(ial, self.p.Kt),
                                    r |-> FMul(ial, self.p.Kt)]}})}})

\* The object after the three calls that end observe, and what the last
\* returns: self.di.l.add(ial); self.di.r.add(iar);
\* self.ddmr.observe(LR { l: ial * Kt, r: iar * Kt }).
ActuatedDDMRModel_advance(self, ial, iar) ==
    The({[self |-> [self EXCEPT !.di.l = dl.self, !.di.r = dr.self,
                                !.ddmr = c2.self],
          ret  |-> c2.ret]
         : dl \in {Differentiator_add(self.di.l, ial)},
           dr \in {Differentiator_add(self.di.r, iar)},
           c2 \in {The({DDMRModel_observe(self.ddmr, tau)
                        : tau \in {[l |-> FMul(ial, self.p.Kt),
                                    r |-> FMul(iar, self.p.Kt)]}})}})

\* A faulty observe whose right current reads the left differentiator.
ActuatedDDMRModel_observe_LeftForRight(self, v) ==
    The({The({The({ActuatedDDMRModel_advance(s2, ial, iar)
                   : ial \in {ActuatedDDMRModel_current(s2.p, v.l, c1.ret.l, g1.ret)},
                     iar \in {ActuatedDDMRModel_current(s2.p, v.r, c1.ret.r, g1.ret)}})
              : s2 \in {[self EXCEPT !.ddmr = c1.self, !.di.l = g1.self]}})
         : c1 \in {DDMRModel_wheels(self.ddmr)},
           g1 \in {Differentiator_get(self.di.l)}})

\* let phidot = self.ddmr.wheels(); let ial = ... self.di.l.get() ...;
\* let iar = ... self.di.r.get() ...; then the differentiators and the
\* drivetrain are advanced with the two currents.
ActuatedDDMRModel_observe(self, v) ==
    The({The({The({ActuatedDDMRModel_advance(s3, ial, iar)
                   : ial \in {ActuatedDDMRModel_current(s3.p, v.l, c1.ret.l, g1.ret)},
                     iar \in {ActuatedDDMRModel_current(s3.p, v.r, c1.ret.r, g2.ret)}})
              : s3 \in {[self EXCEPT !.ddmr = c1.self, !.di.l = g1.self,
                                     !.di.r = g2.self]}})
         : c1 \in {DDMRModel_wheels(self.ddmr)},
           g1 \in {Differentiator_get(self.di.l)},
           g2 \in {Differentiator_get(self.di.r)}})

----------------------------------------------------------------------------
(* The state: one object of each type, the type whose object this          *)
(* behaviour drives (obj), the last call made on it (op) with its argument *)
(* (arg) and the value it returned (ret), the number of mutating calls     *)
(* made (n), and the arguments of the add calls made so far.               *)

VARIABLES
    obj,          \* the type whose object is driven in this behaviour
    op,           \* the last call: "new", "add", "get", "observe", ...
    arg,          \* its argument (Zero when it has none)
    ret,          \* the value it returned (Zero for "new")
    n,            \* the number of add / observe calls made so far
    integ,        \* an Integrator
    integ_init,   \* the `initial` it was created with
    integ_hist,   \* the rates passed to Integrator::add so far
    diff,         \* a Differentiator
    diff_init,    \* the `initial` it was created with
    diff_hist,    \* the samples passed to Differentiator::add so far
    ddmr,         \* a DDMRModel
    pair,         \* two DDMRModels with the same parameters: [a, b]
    pair_same,    \* whether every torque pair given to them so far had the
                  \* same sum, and the same difference: [sum, diff]
    act,          \* an ActuatedDDMRModel
    act_hist,     \* the voltage pairs passed to its observe so far
    mirror,       \* two ActuatedDDMRModels with the same dt and parameters,
                  \* b given a's voltages with left and right swapped: [a, b]
    mirror_hist   \* the voltage pairs passed to a's observe so far

vars == <<obj, op, arg, ret, n, integ, integ_init, integ_hist,
          diff, diff_init, diff_hist, ddmr, pair, pair_same, act, act_hist,
          mirror, mirror_hist>>

integ_vars == <<integ, integ_init, integ_hist>>

diff_vars == <<diff, diff_init, diff_hist>>

pair_vars == <<pair, pair_same>>

act_vars == <<act, act_hist>>

mirror_vars == <<mirror, mirror_hist>>

\* Bounds on the number of mutating calls made on the object under drive.
MaxIntegratorAdds == 3

MaxDifferentiatorAdds == 3

MaxDDMRObserves == 3

MaxPairObserves == 2

MaxActuatedObserves == 3

MaxMirrorObserves == 3

----------------------------------------------------------------------------
(* The inputs.  Timesteps are nonzero and the parameters of DDMRParamSet   *)
(* and DCMotorParamSet are the valid ones the constructors' caller must    *)
(* give (nonzero R, Ra and denominators); DegenerateConfigs are not.       *)

Timesteps == {Frac(1, 1), Frac(5, 4), Frac(9, 4)}

Initials == {Zero, F(1)}

Rates == {F(-1), Zero, F(1), F(3), F(5)}

Samples == {Zero, F(1), Frac(15, 4), Frac(30, 4), Frac(-7, 4), F(8)}

\* The slopes a ramp of samples is tested against.
Slopes == {F(2), F(3), F(15)}

\* d = 0: the center of mass on the wheel axis.
ParamsOnAxis ==
    [R |-> Frac(1, 1), m |-> F(2), mc |-> F(1), d |-> Zero, L |-> F(1),
     I |-> F(1), Iw |-> Frac(1, 2)]

\* mc = 0, d # 0, and a wheel radius that makes the divisions round.
ParamsNoChassis ==
    [R |-> F(3), m |-> F(2), mc |-> Zero, d |-> F(1), L |-> Frac(3, 1),
     I |-> F(1), Iw |-> Frac(1, 2)]

\* mc * d # 0: the two channels are coupled.
ParamsCoupled ==
    [R |-> Frac(1, 1), m |-> F(2), mc |-> F(1), d |-> Frac(1, 1), L |-> F(1),
     I |-> F(1), Iw |-> Frac(1, 2)]

DDMRParamSet == {ParamsOnAxis, ParamsNoChassis, ParamsCoupled}

DDMRTimesteps == {Frac(1, 1), Frac(3, 2)}

Torques == {Zero, F(1)}

TorquePairs == {[l |-> a, r |-> b] : a \in Torques, b \in Torques}

\* Torque pairs for two runs in lockstep: pairs of one sum whose differences
\* differ in size, and pairs of one difference whose sums differ in size.
LockstepTorquePairs ==
    {[l |-> Zero, r |-> Zero], [l |-> F(1), r |-> F(1)],
     [l |-> Zero, r |-> F(2)], [l |-> F(2), r |-> Zero]}

VelsInputs == {[lin |-> a, ang |-> b] : a \in {Zero, F(1), F(3)},
                                         b \in {Zero, F(1), F(-3)}}

MotorA ==
    [Ra |-> F(1), La |-> Frac(1, 2), N |-> F(1), Kb |-> Frac(1, 1), Kt |-> F(1)]

MotorB ==
    [Ra |-> F(3), La |-> Frac(1, 1), N |-> F(2), Kb |-> Frac(1, 2), Kt |-> Frac(3, 1)]

DCMotorParamSet == {MotorA, MotorB}

ActuatedTimesteps == {Frac(1, 1)}

VoltagePairs ==
    {[l |-> Zero, r |-> Zero], [l |-> F(1), r |-> F(1)],
     [l |-> F(1), r |-> Zero], [l |-> Zero, r |-> F(1)],
     [l |-> F(1), r |-> F(-1)]}

\* Parameters no caller should give: zero wheel radius, zero armature
\* resistance, a zero denominator of either acceleration equation
\* (m + 2 Iw / R^2 = 0, I + 2 L^2 Iw / R^2 = 0), and a negative mass with
\* nonzero denominators.
DegenerateConfigs ==
    {[ddmr |-> [ParamsCoupled EXCEPT !.R = Zero], motor |-> MotorA],
     [ddmr |-> ParamsCoupled, motor |-> [MotorA EXCEPT !.Ra = Zero]],
     [ddmr |-> [ParamsCoupled EXCEPT !.m = F(-4)], motor |-> MotorA],
     [ddmr |-> [ParamsCoupled EXCEPT !.I = F(-4)], motor |-> MotorA],
     [ddmr |-> [ParamsCoupled EXCEPT !.m = F(-1)], motor |-> MotorA]}

\* The objects not under drive stay as constructed here.
IdleIntegrator ==
    /\ integ = Integrator_new(Frac(1, 1), Zero)
    /\ integ_init = Zero
    /\ integ_hist = <<>>

IdleDifferentiator ==
    /\ diff = Differentiator_new(Frac(1, 1), Zero)
    /\ diff_init = Zero
    /\ diff_hist = <<>>

IdleDDMR == ddmr = DDMRModel_new(Frac(1, 1), ParamsOnAxis)

IdlePair ==
    /\ pair = [a |-> DDMRModel_new(Frac(1, 1), ParamsOnAxis),
               b |-> DDMRModel_new(Frac(1, 1), ParamsOnAxis)]
    /\ pair_same = [sum |-> TRUE, diff |-> TRUE]

IdleActuated ==
    /\ act = ActuatedDDMRModel_new(Frac(1, 1), ParamsOnAxis, MotorA)
    /\ act_hist = <<>>

IdleMirror ==
    /\ mirror = [a |-> ActuatedDDMRModel_new(Frac(1, 1), ParamsOnAxis, MotorA),
                 b |-> ActuatedDDMRModel_new(Frac(1, 1), ParamsOnAxis, MotorA)]
    /\ mirror_hist = <<>>

\* The state before any call on the object under drive.
NoCall ==
    /\ op = "new"
    /\ arg = Zero
    /\ ret = Zero
    /\ n = 0

----------------------------------------------------------------------------
(* The Integrator under drive. *)

InitIntegrator ==
    /\ obj = "Integrator"
    /\ NoCall
    /\ \E dt \in Timesteps, initial \in Initials :
          /\ integ = Integrator_new(dt, initial)
          /\ integ_init = initial
    /\ integ_hist = <<>>
    /\ IdleDifferentiator /\ IdleDDMR /\ IdlePair /\ IdleActuated /\ IdleMirror

IntegratorAdd ==
    /\ obj = "Integrator"
    /\ n < MaxIntegratorAdds
    /\ \E val \in Rates :
          \E c \in {Integrator_add(integ, val)} :
              /\ integ' = c.self
              /\ ret' = c.ret
              /\ arg' = val
              /\ integ_hist' = Append(integ_hist, val)
    /\ op' = "add"
    /\ n' = n + 1
    /\ UNCHANGED <<obj, integ_init, diff_vars, ddmr, pair_vars, act_vars, mirror_vars>>

IntegratorGet ==
    /\ obj = "Integrator"
    /\ \E c \in {Integrator_get(integ)} :
           /\ integ' = c.self
           /\ ret' = c.ret
    /\ op' = "get"
    /\ arg' = Zero
    /\ UNCHANGED <<obj, n, integ_init, integ_hist, diff_vars, ddmr, pair_vars, act_vars, mirror_vars>>

NextIntegrator == IntegratorAdd \/ IntegratorGet

SpecIntegrator == InitIntegrator /\ [][NextIntegrator]_vars

----------------------------------------------------------------------------
(* The Differentiator under drive. *)

InitDifferentiator ==
    /\ obj = "Differentiator"
    /\ NoCall
    /\ \E dt \in Timesteps, initial \in Initials :
          /\ diff = Differentiator_new(dt, initial)
          /\ diff_init = initial
    /\ diff_hist = <<>>
    /\ IdleIntegrator /\ IdleDDMR /\ IdlePair /\ IdleActuated /\ IdleMirror

DifferentiatorAdd ==
    /\ obj = "Differentiator"
    /\ n < MaxDifferentiatorAdds
    /\ \E val \in Samples :
          \E c \in {Differentiator_add(diff, val)} :
              /\ diff' = c.self
              /\ ret' = c.ret
              /\ arg' = val
              /\ diff_hist' = Append(diff_hist, val)
    /\ op' = "add"
    /\ n' = n + 1
    /\ UNCHANGED <<obj, diff_init, integ_vars, ddmr, pair_vars, act_vars, mirror_vars>>

DifferentiatorGet ==
    /\ obj = "Differentiator"
    /\ \E c \in {Differentiator_get(diff)} :
           /\ diff' = c.self
           /\ ret' = c.ret
    /\ op' = "get"
    /\ arg' = Zero
    /\ UNCHANGED <<obj, n, diff_init, diff_hist, integ_vars, ddmr, pair_vars, act_vars, mirror_vars>>

NextDifferentiator == DifferentiatorAdd \/ DifferentiatorGet

SpecDifferentiator == InitDifferentiator /\ [][NextDifferentiator]_vars

----------------------------------------------------------------------------
(* The DDMRModel under drive. *)

InitDDMR ==
    /\ obj = "DDMRModel"
    /\ NoCall
    /\ \E dt \in DDMRTimesteps, param \in DDMRParamSet :
          ddmr = DDMRModel_new(dt, param)
    /\ IdleIntegrator /\ IdleDifferentiator /\ IdlePair /\ IdleActuated /\ IdleMirror

DDMRObserve ==
    /\ obj = "DDMRModel"
    /\ n < MaxDDMRObserves
    /\ \E tau \in TorquePairs :
          \E c \in {DDMRModel_observe(ddmr, tau)} :
              /\ ddmr' = c.self
              /\ ret' = c.ret
              /\ arg' = tau
    /\ op' = "observe"
    /\ n' = n + 1
    /\ UNCHANGED <<obj, integ_vars, diff_vars, pair_vars, act_vars, mirror_vars>>

DDMRVel ==
    /\ obj = "DDMRModel"
    /\ \E c \in {DDMRModel_vel(ddmr)} :
           /\ ddmr' = c.self
           /\ ret' = c.ret
    /\ op' = "vel"
    /\ arg' = Zero
    /\ UNCHANGED <<obj, n, integ_vars, diff_vars, pair_vars, act_vars, mirror_vars>>

DDMRWheels ==
    /\ obj = "DDMRModel"
    /\ \E c \in {DDMRModel_wheels(ddmr)} :
           /\ ddmr' = c.self
           /\ ret' = c.ret
    /\ op' = "wheels"
    /\ arg' = Zero
    /\ UNCHANGED <<obj, n, integ_vars, diff_vars, pair_vars, act_vars, mirror_vars>>

DDMRVelsToWheel ==
    /\ obj = "DDMRModel"
    /\ \E v \in VelsInputs :
          \E c \in {DDMRModel_vels_to_wheel(ddmr, v)} :
              /\ ddmr' = c.self
              /\ ret' = c.ret
              /\ arg' = v
    /\ op' = "vels_to_wheel"
    /\ UNCHANGED <<obj, n, integ_vars, diff_vars, pair_vars, act_vars, mirror_vars>>

NextDDMR == DDMRObserve \/ DDMRVel \/ DDMRWheels \/ DDMRVelsToWheel

SpecDDMR == InitDDMR /\ [][NextDDMR]_vars

----------------------------------------------------------------------------
(* Two DDMRModels with the same parameters and timestep, observed in       *)
(* lockstep with torque pairs that have the same sum or the same           *)
(* difference (the two runs a decoupling claim compares).                  *)

InitPair ==
    /\ obj = "DDMRModel pair"
    /\ NoCall
    /\ \E dt \in DDMRTimesteps, param \in DDMRParamSet :
          pair = [a |-> DDMRModel_new(dt, param), b |-> DDMRModel_new(dt, param)]
    /\ pair_same = [sum |-> TRUE, diff |-> TRUE]
    /\ IdleIntegrator /\ IdleDifferentiator /\ IdleDDMR /\ IdleActuated /\ IdleMirror

PairObserve ==
    /\ obj = "DDMRModel pair"
    /\ n < MaxPairObserves
    /\ \E ta \in LockstepTorquePairs, tb \in LockstepTorquePairs :
       \E sameSum  \in {ExAdd(ta.r, ta.l) = ExAdd(tb.r, tb.l)},
          sameDiff \in {ExSub(ta.r, ta.l) = ExSub(tb.r, tb.l)} :
       \E ca \in {DDMRModel_observe(pair.a, ta)},
          cb \in {DDMRModel_observe(pair.b, tb)} :
              /\ sameSum \/ sameDiff
              /\ pair' = [a |-> ca.self, b |-> cb.self]
              /\ pair_same' = [sum  |-> pair_same.sum /\ sameSum,
                               diff |-> pair_same.diff /\ sameDiff]
              /\ arg' = [a |-> ta, b |-> tb]
              /\ ret' = [a |-> ca.ret, b |-> cb.ret]
    /\ op' = "observe"
    /\ n' = n + 1
    /\ UNCHANGED <<obj, integ_vars, diff_vars, ddmr, act_vars, mirror_vars>>

NextPair == PairObserve

SpecPair == InitPair /\ [][NextPair]_vars

----------------------------------------------------------------------------
(* The ActuatedDDMRModel under drive: observe is its only public method. *)

InitActuated ==
    /\ obj = "ActuatedDDMRModel"
    /\ NoCall
    /\ \E dt \in ActuatedTimesteps, ddmr_par \in DDMRParamSet,
          params \in DCMotorParamSet :
          act = ActuatedDDMRModel_new(dt, ddmr_par, params)
    /\ act_hist = <<>>
    /\ IdleIntegrator /\ IdleDifferentiator /\ IdleDDMR /\ IdlePair /\ IdleMirror

ActuatedObserve ==
    /\ obj = "ActuatedDDMRModel"
    /\ n < MaxActuatedObserves
    /\ \E v \in VoltagePairs :
          \E c \in {ActuatedDDMRModel_observe(act, v)} :
              /\ act' = c.self
              /\ ret' = c.ret
              /\ arg' = v
              /\ act_hist' = Append(act_hist, v)
    /\ op' = "observe"
    /\ n' = n + 1
    /\ UNCHANGED <<obj, integ_vars, diff_vars, ddmr, pair_vars, mirror_vars>>

NextActuated == ActuatedObserve

Spec == InitActuated /\ [][NextActuated]_vars

\* The same, constructed with parameters no caller should give.
InitDegenerate ==
    /\ obj = "ActuatedDDMRModel"
    /\ NoCall
    /\ \E dt \in ActuatedTimesteps, c \in DegenerateConfigs :
          act = ActuatedDDMRModel_new(dt, c.ddmr, c.motor)
    /\ act_hist = <<>>
    /\ IdleIntegrator /\ IdleDifferentiator /\ IdleDDMR /\ IdlePair /\ IdleMirror

SpecDegenerate == InitDegenerate /\ [][NextActuated]_vars

----------------------------------------------------------------------------
(* Two ActuatedDDMRModels built with the same dt and parameters and        *)
(* observed in lockstep, the second with the voltages of the first         *)
(* exchanged between left and right.                                       *)

SwapLR(v) == [l |-> v.r, r |-> v.l]

InitMirror ==
    /\ obj = "ActuatedDDMRModel mirror"
    /\ NoCall
    /\ \E dt \in ActuatedTimesteps, ddmr_par \in DDMRParamSet,
          params \in DCMotorParamSet :
          mirror = [a |-> ActuatedDDMRModel_new(dt, ddmr_par, params),
                    b |-> ActuatedDDMRModel_new(dt, ddmr_par, params)]
    /\ mirror_hist = <<>>
    /\ IdleIntegrator /\ IdleDifferentiator /\ IdleDDMR /\ IdlePair /\ IdleActuated

MirrorObserve ==
    /\ obj = "ActuatedDDMRModel mirror"
    /\ n < MaxMirrorObserves
    /\ \E v \in VoltagePairs :
       \E ca \in {ActuatedDDMRModel_observe(mirror.a, v)},
          cb \in {ActuatedDDMRModel_observe(mirror.b, SwapLR(v))} :
              /\ mirror' = [a |-> ca.self, b |-> cb.self]
              /\ ret' = [a |-> ca.ret, b |-> cb.ret]
              /\ arg' = [a |-> v, b |-> SwapLR(v)]
              /\ mirror_hist' = Append(mirror_hist, v)
    /\ op' = "observe"
    /\ n' = n + 1
    /\ UNCHANGED <<obj, integ_vars, diff_vars, ddmr, pair_vars, act_vars>>

NextMirror == MirrorObserve

SpecMirror == InitMirror /\ [][NextMirror]_vars

----------------------------------------------------------------------------
(* Any one of the objects under drive. *)

InitAll ==
    InitIntegrator \/ InitDifferentiator \/ InitDDMR \/ InitPair \/ InitActuated

NextAll ==
    \/ NextIntegrator
    \/ NextDifferentiator
    \/ NextDDMR
    \/ NextPair
    \/ NextActuated

SpecAll == InitAll /\ [][NextAll]_vars

----------------------------------------------------------------------------
(* C1: the Integrator accumulates rate * dt. *)

\* The exact (unrounded) sum of h[1] * dt, ..., h[Len(h)] * dt.
RECURSIVE SumProd(_, _)
SumProd(h, dt) ==
    IF h = <<>> THEN Zero
    ELSE ExAdd(SumProd(SubSeq(h, 1, Len(h) - 1), dt), ExMul(h[Len(h)], dt))

\* The exact sum of |h[k] * dt|.
RECURSIVE SumAbsProd(_, _)
SumAbsProd(h, dt) ==
    IF h = <<>> THEN Zero
    ELSE ExAdd(SumAbsProd(SubSeq(h, 1, Len(h) - 1), dt),
               ExAbs(ExMul(h[Len(h)], dt)))

\* initial + T * (r_1 + ... + r_n), exactly.
IntegralExact == ExAdd(integ_init, SumProd(integ_hist, integ.dt))

\* Every product r_k * dt and every partial sum is a float: no add rounded.
IntegralUnrounded ==
    \A k \in 1..Len(integ_hist) :
        /\ Representable(ExMul(integ_hist[k], integ.dt))
        /\ Representable(ExAdd(integ_init,
                               SumProd(SubSeq(integ_hist, 1, k), integ.dt)))

\* C1 as stated: after add(r_1) ... add(r_n), get() equals
\* initial + T * (r_1 + ... + r_n) (n * r * T for a constant rate from zero).
C1_ExactIntegral ==
    obj = "Integrator" => integ.acc = IntegralExact

\* C1, amended: add returns the updated accumulator, which equals
\* initial + T * (r_1 + ... + r_n) exactly when no product or sum was
\* rounded, and otherwise within the rounding tolerance
\*   |acc - exact| <= g * (|initial| + T * (|r_1| + ... + |r_n|)),
\*   g = (n + 1) u / (1 - (n + 1) u),  u = 2^(-MantBits).
C1_IntegralWithinRounding ==
    obj = "Integrator" =>
        LET err == ExAbs(ExSub(integ.acc, IntegralExact))
            mag == ExAdd(ExAbs(integ_init), SumAbsProd(integ_hist, integ.dt))
        IN  /\ n = Len(integ_hist)
            /\ IsFinite(integ.acc)
            /\ op \in {"add", "get"} => ret = integ.acc
            /\ IntegralUnrounded => integ.acc = IntegralExact
            /\ ExLeq(ExMul(err, Canon(Pow2(MantBits) - (n + 1), 0)),
                     ExMul(mag, Canon(n + 1, 0)))

\* Three adds of one nonzero rate from zero, the last of which rounded.
C1_Witness ==
    /\ obj = "Integrator"
    /\ op = "add"
    /\ Len(integ_hist) = 3
    /\ integ_init = Zero
    /\ integ_hist[1] # Zero
    /\ integ_hist[2] = integ_hist[1]
    /\ integ_hist[3] = integ_hist[1]
    /\ integ.acc # IntegralExact

----------------------------------------------------------------------------
(* C2: the Differentiator is a two-point backward difference. *)

\* The k-th sample, the seed standing in for the samples before the first.
DiffSample(k) == IF k >= 1 THEN diff_hist[k] ELSE diff_init

\* The samples lie exactly on a line of slope s: x_k - x_(k-1) = s * dt.
DiffRamp(s) ==
    /\ Len(diff_hist) >= 2
    /\ \A k \in 2..Len(diff_hist) :
          ExSub(diff_hist[k], diff_hist[k - 1]) = ExMul(s, diff.dt)

\* The backward difference of the two most recent samples.
DiffBackward == FDiv(FSub(DiffSample(n), DiffSample(n - 1)), diff.dt)

\* C2 as stated, the part on ramps: fed a ramp of slope s, every estimate
\* from the second add onward equals s.
C2_RampExact ==
    (obj = "Differentiator" /\ op \in {"add", "get"}) =>
        \A s \in Slopes : DiffRamp(s) => ret = s

\* C2, amended: get() is exactly zero before any add; add(val) sets two to
\* the old last and last to val; get() and the value add returns are the
\* float (fl(x_n - x_(n-1))) / dt; fed a ramp of slope s the estimates from
\* the second add onward equal s when s * dt is a float, and otherwise only
\* up to the rounding of the difference and of the quotient.
C2_BackwardDifference ==
    obj = "Differentiator" =>
        /\ n = Len(diff_hist)
        /\ diff.last = DiffSample(n)
        /\ diff.two = DiffSample(n - 1)
        /\ Differentiator_get(diff).ret = DiffBackward
        /\ op \in {"add", "get"} => ret = DiffBackward
        /\ n = 0 => Differentiator_get(diff).ret = Zero
        /\ (n = 0 /\ op = "get") => ret = Zero
        /\ op \in {"add", "get"} =>
              \A s \in Slopes :
                  (DiffRamp(s) /\ Representable(ExMul(s, diff.dt)))
                      => ret = s

\* Three samples on a ramp whose slope the third add returns exactly.
C2_Witness ==
    /\ obj = "Differentiator"
    /\ op = "add"
    /\ Len(diff_hist) = 3
    /\ \E s \in Slopes :
          /\ DiffRamp(s)
          /\ Representable(ExMul(s, diff.dt))
          /\ ret = s
          /\ diff.two # diff_init

----------------------------------------------------------------------------
(* C5: with mc * d = 0 the linear and the angular channel are decoupled. *)

CoupledChannelsAgree ==
    (obj = "DDMRModel pair" /\ pair_same.sum) =>
        pair.a.linv.acc = pair.b.linv.acc

----------------------------------------------------------------------------
(* Rounding tolerance: err <= g * mag with g = k u / (1 - k u), the bound  *)
(* on the relative error of k successive roundings, u = 2^(-MantBits).     *)

WithinRounding(err, mag, k) ==
    ExLeq(ExMul(ExAbs(err), Canon(Pow2(MantBits) - k, 0)),
          ExMul(ExAbs(mag), Canon(k, 0)))

----------------------------------------------------------------------------
(* C4: equal torques and d = 0 give no angular acceleration. *)

\* C4: for a DDMRModel with d = 0, every observe with tau.l = tau.r leaves
\* the angular velocity as it was before the call (and returns it).
C4_NoAngularAcceleration ==
    [][(obj' = "DDMRModel" /\ op' = "observe" /\ ddmr.p.d = Zero
            /\ arg'.l = arg'.r)
        => /\ ddmr'.angv.acc = ddmr.angv.acc
           /\ ret'.ang = ddmr.angv.acc]_vars

\* An equal-torque observe of a model with d = 0 that is already turning
\* and moving.
C4_Witness ==
    /\ obj = "DDMRModel"
    /\ op = "observe"
    /\ n >= 2
    /\ ddmr.p.d = Zero
    /\ ddmr.p.mc # Zero
    /\ arg.l = arg.r
    /\ arg.l # Zero
    /\ ddmr.angv.acc # Zero
    /\ ddmr.linv.acc # Zero

----------------------------------------------------------------------------
(* C6: vels_to_wheel and the reconstruction of the velocities. *)

\* lin' = R (right + left) / 2, ang' = R (right - left) / (2 L), in f64.
Reconstruct(w, p) ==
    [lin |-> FDiv(FMul(p.R, FAdd(w.r, w.l)), Two),
     ang |-> FDiv(FMul(p.R, FSub(w.r, w.l)), FMul(Two, p.L))]

\* No operation of vels_to_wheel(v) and of the reconstruction rounds: every
\* exact intermediate value is a float.
RoundTripUnrounded(v, p) ==
    LET La == ExMul(p.L, v.ang)
        dl == ExSub(v.lin, La)
        dr == ExAdd(v.lin, La)
        ql == FDiv(dl, p.R)
        qr == FDiv(dr, p.R)
        sm == ExAdd(qr, ql)
        df == ExSub(qr, ql)
    IN  /\ Representable(La) /\ Representable(dl) /\ Representable(dr)
        /\ ExMul(ql, p.R) = dl /\ ExMul(qr, p.R) = dr
        /\ Representable(sm) /\ Representable(df)
        /\ Representable(ExMul(p.R, sm)) /\ Representable(ExMul(p.R, df))
        /\ ExMul(FDiv(ExMul(p.R, df), FMul(Two, p.L)), ExMul(Two, p.L))
               = ExMul(p.R, df)

\* C6 as stated: the reconstruction recovers lin and ang exactly.
C6_RoundTripExact ==
    (obj = "DDMRModel" /\ op = "vels_to_wheel") =>
        Reconstruct(ret, ddmr.p) = arg

\* C6, amended: the reconstruction recovers lin and ang exactly when no
\* operation rounds, and otherwise within the rounding tolerance
\*   |lin' - lin| <= g (|lin| + |L ang|),  |L| |ang' - ang| <= g (|lin| + |L ang|),
\*   g = 6 u / (1 - 6 u).
C6_RoundTripWithinRounding ==
    (obj = "DDMRModel" /\ op = "vels_to_wheel") =>
        LET p   == ddmr.p
            rec == Reconstruct(ret, p)
            mag == ExAdd(ExAbs(arg.lin), ExAbs(ExMul(p.L, arg.ang)))
        IN  /\ IsFinite(rec.lin) /\ IsFinite(rec.ang)
            /\ RoundTripUnrounded(arg, p) => rec = arg
            /\ WithinRounding(ExSub(rec.lin, arg.lin), mag, 6)
            /\ WithinRounding(ExMul(p.L, ExSub(rec.ang, arg.ang)), mag, 6)

\* An exact round trip of a velocity with both components nonzero, through
\* wheel rates that differ from the velocities.
C6_Witness ==
    /\ obj = "DDMRModel"
    /\ op = "vels_to_wheel"
    /\ arg.lin # Zero
    /\ arg.ang # Zero
    /\ ret.l # ret.r
    /\ ret.r # arg.lin
    /\ RoundTripUnrounded(arg, ddmr.p)
    /\ Reconstruct(ret, ddmr.p) = arg

----------------------------------------------------------------------------
(* C10: both accelerations come from the velocities before the call. *)

\* C10: observe(tau) takes (v, w) to
\*   v' = v + dt * [((tau.r + tau.l)/R + mc d w w) / (m + 2 Iw/R^2)],
\*   w' = w + dt * [((tau.r - tau.l) L/R - mc d w v) / (I + 2 L^2 Iw/R^2)],
\* each operation an f64 operation in the order the source writes them, and
\* the v in w' is the linear velocity before the call.
C10_ExplicitStep ==
    [][(obj' = "DDMRModel" /\ op' = "observe") =>
        \A tau \in {arg'} :
        LET p   == ddmr.p
            dt  == ddmr.linv.dt
            v   == ddmr.linv.acc
            w   == ddmr.angv.acc
            mcd == FMul(p.mc, p.d)
            vd  == FDiv(FAdd(FDiv(FAdd(tau.r, tau.l), p.R), FMul(FMul(mcd, w), w)),
                        FAdd(p.m, FDiv(FDiv(FMul(Two, p.Iw), p.R), p.R)))
            wd  == FDiv(FSub(FDiv(FMul(FSub(tau.r, tau.l), p.L), p.R),
                             FMul(FMul(mcd, w), v)),
                        FAdd(p.I, FDiv(FDiv(FMul(FMul(FMul(Two, p.L), p.L), p.Iw),
                                            p.R), p.R)))
        IN  /\ ddmr'.linv.acc = FAdd(v, FMul(dt, vd))
            /\ ddmr'.angv.acc = FAdd(w, FMul(dt, wd))
            /\ ddmr'.p = p
            /\ ddmr'.linv.dt = dt /\ ddmr'.angv.dt = dt]_vars

\* A coupled model (mc d # 0) observed while turning and moving, whose
\* linear velocity the call before changed.
C10_Witness ==
    /\ obj = "DDMRModel"
    /\ op = "observe"
    /\ n >= 3
    /\ FMul(ddmr.p.mc, ddmr.p.d) # Zero
    /\ ddmr.angv.acc # Zero
    /\ ddmr.linv.acc # Zero
    /\ ret.lin = ddmr.linv.acc

----------------------------------------------------------------------------
(* C3: the all-zero state is a fixed point of ActuatedDDMRModel::observe. *)

ZeroLR == [l |-> Zero, r |-> Zero]

\* Every voltage pair given so far was zero on both sides.
AtRest == \A k \in 1..Len(act_hist) : act_hist[k] = ZeroLR

\* C3: a freshly constructed ActuatedDDMRModel given zero voltage on both
\* sides any number of times stays all-zero: both currents, both torques,
\* both differentiators' histories and the velocities, stored and returned.
C3_RestIsFixedPoint ==
    (obj = "ActuatedDDMRModel" /\ AtRest) =>
        /\ act.di.l.last = Zero /\ act.di.l.two = Zero
        /\ act.di.r.last = Zero /\ act.di.r.two = Zero
        /\ FMul(act.di.l.last, act.p.Kt) = Zero
        /\ FMul(act.di.r.last, act.p.Kt) = Zero
        /\ act.ddmr.linv.acc = Zero /\ act.ddmr.angv.acc = Zero
        /\ op = "observe" => ret = Vels_default

\* Three observes at rest, of a model whose channels are coupled.
C3_Witness ==
    /\ obj = "ActuatedDDMRModel"
    /\ op = "observe"
    /\ n = 3
    /\ AtRest
    /\ FMul(act.ddmr.p.mc, act.ddmr.p.d) # Zero
    /\ ret = Vels_default

----------------------------------------------------------------------------
(* C9: both currents of one observe come from the state before the call. *)

\* C9: observe(v) sets each side's current to
\*   (v_side - Kb N phidot_side - La d_side) / Ra,
\* phidot the wheel rates and d_side that side's differentiator estimate
\* (last - two) / dt, all of the state before the call; then each
\* differentiator shifts in its side's current, and the drivetrain is
\* advanced once with the torques (i_l Kt, i_r Kt).
C9_CurrentsFromPreState ==
    [][(obj' = "ActuatedDDMRModel" /\ op' = "observe") =>
        \A v \in {arg'} :
        LET p   == act.p
            q   == act.ddmr.p
            lin == act.ddmr.linv.acc
            ang == act.ddmr.angv.acc
            pl  == FDiv(FSub(lin, FMul(q.L, ang)), q.R)
            pr  == FDiv(FAdd(lin, FMul(q.L, ang)), q.R)
            dl  == FDiv(FSub(act.di.l.last, act.di.l.two), act.di.l.dt)
            dr  == FDiv(FSub(act.di.r.last, act.di.r.two), act.di.r.dt)
            il  == FDiv(FSub(FSub(v.l, FMul(FMul(p.Kb, p.N), pl)), FMul(p.La, dl)),
                        p.Ra)
            ir  == FDiv(FSub(FSub(v.r, FMul(FMul(p.Kb, p.N), pr)), FMul(p.La, dr)),
                        p.Ra)
            tau == [l |-> FMul(il, p.Kt), r |-> FMul(ir, p.Kt)]
        IN  /\ act'.di.l = [dt |-> act.di.l.dt, last |-> il, two |-> act.di.l.last]
            /\ act'.di.r = [dt |-> act.di.r.dt, last |-> ir, two |-> act.di.r.last]
            /\ act'.ddmr = DDMRModel_observe(act.ddmr, tau).self
            /\ act'.p = p]_vars

\* A third observe with different voltages on the two sides, the two
\* differentiators holding different, nonzero histories.
C9_Witness ==
    /\ obj = "ActuatedDDMRModel"
    /\ op = "observe"
    /\ n >= 3
    /\ arg.l # arg.r
    /\ act.di.l.two # Zero /\ act.di.r.two # Zero
    /\ act.di.l.two # act.di.r.two
    /\ act.di.l.last # act.di.l.two
    /\ act.di.l.last # act.di.r.last
    /\ act.ddmr.angv.acc # Zero

----------------------------------------------------------------------------
(* C8: what the constructors do with degenerate parameters. *)

\* The denominators of the two acceleration equations.
LinearDenominator(q) == FAdd(q.m, FDiv(FDiv(FMul(Two, q.Iw), q.R), q.R))

AngularDenominator(q) ==
    FAdd(q.I, FDiv(FDiv(FMul(FMul(FMul(Two, q.L), q.L), q.Iw), q.R), q.R))

Positive(x) == x[1] = 1 \/ (x[1] = 0 /\ x[2] > 0)

\* A division of observe has a zero divisor.
ZeroDivisor(a) ==
    \/ a.ddmr.p.R = Zero
    \/ a.p.Ra = Zero
    \/ LinearDenominator(a.ddmr.p) = Zero
    \/ AngularDenominator(a.ddmr.p) = Zero

\* Mass, wheel radius, an inertia or the armature resistance is zero or
\* negative, or a denominator of an acceleration equation is zero.
Degenerate(a) ==
    \/ ~Positive(a.ddmr.p.m) \/ ~Positive(a.ddmr.p.R)
    \/ ~Positive(a.ddmr.p.I) \/ ~Positive(a.ddmr.p.Iw)
    \/ ~Positive(a.p.Ra)
    \/ ZeroDivisor(a)

\* The state of a model as its constructor leaves it.
Fresh(a) ==
    /\ a.ddmr.linv.acc = Zero /\ a.ddmr.angv.acc = Zero
    /\ a.di.l.last = Zero /\ a.di.l.two = Zero
    /\ a.di.r.last = Zero /\ a.di.r.two = Zero

----------------------------------------------------------------------------
(* C7: the read accessors change nothing. *)

Accessors == {"get", "vel", "wheels", "vels_to_wheel"}

\* C7: a call of get, vel, wheels or vels_to_wheel leaves every object as
\* it was (accumulators, histories, dt, parameters); the state of a model
\* changes only in observe (of an Integrator or Differentiator: in add).
C7_AccessorsPure ==
    [][/\ op' \in Accessors =>
              UNCHANGED <<integ, integ_init, integ_hist, diff, diff_init,
                          diff_hist, ddmr, pair, pair_same, act, act_hist,
                          mirror, mirror_hist, n>>
       /\ (ddmr' # ddmr \/ act' # act \/ pair' # pair) => op' = "observe"
       /\ (integ' # integ \/ diff' # diff) => op' = "add"]_vars

\* wheels() was called on a coupled model that is turning and moving, where
\* a step without torque would change the velocities.
C7_Witness ==
    /\ obj = "DDMRModel"
    /\ op = "wheels"
    /\ n >= 2
    /\ FMul(ddmr.p.mc, ddmr.p.d) # Zero
    /\ ddmr.angv.acc # Zero
    /\ ddmr.linv.acc # Zero
    /\ ret.l # ret.r

----------------------------------------------------------------------------
(* C11: what observe returns. *)

\* The torque pair (i_l * Kt, i_r * Kt) that ActuatedDDMRModel::observe(v)
\* computes in the state a.
ObserveTorques(a, v) ==
    The({The({[l |-> FMul(ial, a.p.Kt), r |-> FMul(iar, a.p.Kt)]
              : ial \in {ActuatedDDMRModel_current(a.p, v.l, phidot.l,
                                                   Differentiator_get(a.di.l).ret)},
                iar \in {ActuatedDDMRModel_current(a.p, v.r, phidot.r,
                                                   Differentiator_get(a.di.r).ret)}})
         : phidot \in {DDMRModel_wheels(a.ddmr).ret}})

\* C11: the Vels returned by DDMRModel::observe is what vel() returns right
\* after the call (the velocities after the update), for a model driven alone
\* or in a pair; the Vels returned by ActuatedDDMRModel::observe(v) is the
\* value the owned drivetrain's observe returns for the torque pair
\* (i_l * Kt, i_r * Kt) of that call, the drivetrain after the call is the
\* drivetrain before it advanced by exactly that one step, and the value
\* returned is again what the drivetrain's vel() returns after the call.
C11_ObserveReturnsPostUpdate ==
    [][/\ (obj' = "DDMRModel" /\ op' = "observe") =>
              ret' = DDMRModel_vel(ddmr').ret
       /\ (obj' = "DDMRModel pair" /\ op' = "observe") =>
              /\ ret'.a = DDMRModel_vel(pair'.a).ret
              /\ ret'.b = DDMRModel_vel(pair'.b).ret
       /\ (obj' = "ActuatedDDMRModel" /\ op' = "observe") =>
              \A v \in {arg'}, post \in {act'}, out \in {ret'} :
              \A step \in {DDMRModel_observe(act.ddmr, ObserveTorques(act, v))} :
                  /\ out = step.ret
                  /\ post.ddmr = step.self
                  /\ out = DDMRModel_vel(post.ddmr).ret]_vars

\* A second or later observe of an actuated model with current in both
\* motors returned nonzero velocities, which are the drivetrain's own.
C11_Witness ==
    /\ obj = "ActuatedDDMRModel"
    /\ op = "observe"
    /\ n >= 2
    /\ act.di.l.last # Zero /\ act.di.r.last # Zero
    /\ act.di.l.last # act.di.r.last
    /\ ret.lin # Zero /\ ret.ang # Zero
    /\ ret = DDMRModel_vel(act.ddmr).ret

----------------------------------------------------------------------------
(* C12: left/right mirror symmetry of the actuated model. *)

\* Every voltage pair given so far had equal left and right voltage.
EvenVoltages == \A i \in 1..Len(mirror_hist) : mirror_hist[i].l = mirror_hist[i].r

\* C12: two ActuatedDDMRModels built with the same dt and parameters, the
\* second observed with the voltages of the first exchanged between left and
\* right at every step, have after every step equal linear velocity, negated
\* angular velocity, and each other's left and right differentiators (the
\* latest current and the one before it); the velocities they return are
\* mirrored the same way; and a model given equal left and right voltage at
\* every step since construction has angular velocity zero, whatever d is.
C12_MirrorSymmetry ==
    obj = "ActuatedDDMRModel mirror" =>
        /\ n = Len(mirror_hist)
        /\ mirror.b.ddmr.linv.acc = mirror.a.ddmr.linv.acc
        /\ mirror.b.ddmr.angv.acc = FNeg(mirror.a.ddmr.angv.acc)
        /\ mirror.b.di.l = mirror.a.di.r
        /\ mirror.b.di.r = mirror.a.di.l
        /\ mirror.b.p = mirror.a.p /\ mirror.b.ddmr.p = mirror.a.ddmr.p
        /\ op = "observe" =>
              /\ ret.b.lin = ret.a.lin
              /\ ret.b.ang = FNeg(ret.a.ang)
        /\ EvenVoltages =>
              /\ mirror.a.ddmr.angv.acc = Zero
              /\ op = "observe" => ret.a.ang = Zero

\* After steps with unequal left and right voltages a coupled model
\* (mc * d # 0) moves and turns, its two motors carrying different currents
\* now and one step before, and its mirror image turns the other way.
C12_Witness ==
    /\ obj = "ActuatedDDMRModel mirror"
    /\ op = "observe"
    /\ n >= 2
    /\ arg.a.l # arg.a.r
    /\ FMul(mirror.a.ddmr.p.mc, mirror.a.ddmr.p.d) # Zero
    /\ mirror.a.ddmr.linv.acc # Zero
    /\ mirror.a.ddmr.angv.acc # Zero
    /\ mirror.a.di.l.last # mirror.a.di.r.last
    /\ mirror.a.di.l.two # mirror.a.di.r.two
    /\ mirror.b.ddmr.angv.acc # mirror.a.ddmr.angv.acc
    /\ mirror.b.di.l.last = mirror.a.di.r.last

====
